---- MODULE Spec2Model ----
(***************************************************************************)
(* A model of pdf_tools' PDF splitter (src/src/pdf_splitter.py): the       *)
(* bounded-integer prompt get_int, the file-name prompt get_file_name, the *)
(* OutputFile page generator, and the interactive session of main() with   *)
(* the file system it reads and writes.                                    *)
(*                                                                         *)
(* A text line is a sequence of one-character strings.  A document is the  *)
(* sequence of its pages; page p of the selected source is the number p.   *)
(***************************************************************************)
EXTENDS Integers, Sequences, FiniteSets, TLC

VARIABLES
    \* ---- the session of main() ----
    pc,             \* where main() is: the prompt it waits at, or how it ended
    disk,           \* the directory: file name -> document (sequence of pages)
    origDisk,       \* the directory as it was when the session started
    files,          \* main: files (the result of list_pdf_files)
    selected_file,  \* main: selected_file
    inputOpen,      \* main: the source handle `input` is open
    page_count,     \* main: page_count
    target_count,   \* get_output_files: target_count
    name,           \* get_output_files: name of the output being entered
    start,          \* get_output_files: start of the output being entered
    output_files,   \* get_output_files: targets / main: output_files
    retries,        \* get_int: lines rejected so far by the running call
    gen,            \* generate_output_files: index of the next output
    out,            \* the diagnostics main() has printed
    generated,      \* the outputs generated_callback was invoked for
    copied,         \* per output, the pages added to its writer
    escaped,        \* the exception that left main(), or "none"
    failedAt,       \* the output generation failed at, or 0
    engineErr,      \* where the PDF engine failed, or "none"
    earlyExit,      \* the early-exit condition main() met, or "none"
    \* ---- one call of get_int ----
    gi_min, gi_max, gi_read, gi_msgs, gi_done, gi_x,
    \* ---- one call of get_file_name ----
    fn_allow_hidden, fn_input, fn_reads, fn_msgs, fn_returned, fn_name, fn_done,
    \* ---- one OutputFile and the generators made from it ----
    pg_o, pg_gen, pg_calls

sessVars == <<pc, disk, origDisk, files, selected_file, inputOpen, page_count,
              target_count, name, start, output_files, retries, gen, out,
              generated, copied, escaped, failedAt, engineErr, earlyExit>>
giVars == <<gi_min, gi_max, gi_read, gi_msgs, gi_done, gi_x>>
fnVars == <<fn_allow_hidden, fn_input, fn_reads, fn_msgs, fn_returned, fn_name, fn_done>>
pgVars == <<pg_o, pg_gen, pg_calls>>
vars == <<sessVars, giVars, fnVars, pgVars>>

-----------------------------------------------------------------------------
(* Bounds of the model. *)

\* longest input line typed at an integer prompt
MaxLineLen == 2
\* most lines read by one get_int call
MaxLines == 2
\* longest short file name typed at a file-name prompt
MaxNameLen == 3
\* most lines one get_file_name call is let to read
MaxNameLines == 2
\* most pages of a source document
MaxPages == 2
\* largest page number of the interval of a lone OutputFile
MaxPageNo == 3
\* most calls of pages() on one OutputFile
MaxCalls == 3
\* most output files asked for in one session
MaxTargets == 2
\* most lines one get_int call of a session rejects
MaxRetries == 1

(* Program constants. *)

\* longest accepted file name
NameMaxLen == 255
\* most output files get_output_files accepts
TargetCountMax == 100

-----------------------------------------------------------------------------
(* Characters and strings. *)

Digits == <<"0", "1", "2", "3", "4", "5", "6", "7", "8", "9">>
Letters == {"a", "b", "c", "d", "f", "n", "p", "t", "x", "B", "D", "F", "P"}
Whitespace == {" ", "\t"}

IsDigit(c) == \E i \in 1..10 : Digits[i] = c
DigitVal(c) == (CHOOSE i \in 1..10 : Digits[i] = c) - 1

\* str.isalnum() of one character
IsAlnum(c) == IsDigit(c) \/ c \in Letters

\* str.lower() of one character
LowerChar(c) ==
    CASE c = "B" -> "b"
      [] c = "D" -> "d"
      [] c = "F" -> "f"
      [] c = "P" -> "p"
      [] OTHER -> c

Lower(s) == [i \in 1..Len(s) |-> LowerChar(s[i])]

EndsWith(s, suffix) ==
    /\ Len(s) >= Len(suffix)
    /\ SubSeq(s, Len(s) - Len(suffix) + 1, Len(s)) = suffix

RECURSIVE LStrip(_)
LStrip(s) == IF s # <<>> /\ Head(s) \in Whitespace THEN LStrip(Tail(s)) ELSE s

RECURSIVE RStrip(_)
RStrip(s) ==
    IF s # <<>> /\ s[Len(s)] \in Whitespace THEN RStrip(SubSeq(s, 1, Len(s) - 1)) ELSE s

\* str.strip()
Strip(s) == RStrip(LStrip(s))

Repeat(c, n) == [i \in 1..n |-> c]

\* all the lines over an alphabet up to a length
LinesUpTo(chars, n) == UNION {[1..k -> chars] : k \in 0..n}

DotPdf == <<".", "p", "d", "f">>

-----------------------------------------------------------------------------
(* int(str): surrounding whitespace is dropped, one sign is allowed, then   *)
(* decimal digits, where single underscores may separate digits.           *)

RECURSIVE DigitsValue(_, _)
DigitsValue(s, acc) ==
    IF s = <<>> THEN acc
    ELSE IF Head(s) = "_" THEN DigitsValue(Tail(s), acc)
    ELSE DigitsValue(Tail(s), 10 * acc + DigitVal(Head(s)))

IntBodyOk(b) ==
    /\ b # <<>>
    /\ \A i \in 1..Len(b) : IsDigit(b[i]) \/ b[i] = "_"
    /\ IsDigit(b[1])
    /\ IsDigit(b[Len(b)])
    /\ \A i \in 1..(Len(b) - 1) : ~(b[i] = "_" /\ b[i + 1] = "_")

ParseInt(s) ==
    LET t == Strip(s)
        signed == t # <<>> /\ Head(t) \in {"+", "-"}
        body == IF signed THEN Tail(t) ELSE t
        ok == IntBodyOk(body)
        mag == IF ok THEN DigitsValue(body, 0) ELSE 0
    IN  [ok |-> ok, val |-> IF signed /\ Head(t) = "-" THEN 0 - mag ELSE mag]

-----------------------------------------------------------------------------
(* get_int: one turn of its loop on one input line. *)

MsgNone == "none"
MsgNotANumber == "Please enter a number."
MsgError == "error_msg"

GetIntIterNoMax(line, min, max) ==
    LET p == ParseInt(line)
    IN  IF ~p.ok THEN [done |-> FALSE, x |-> 0, msg |-> MsgNotANumber]
        ELSE IF min <= p.val
             THEN [done |-> TRUE, x |-> p.val, msg |-> MsgNone]
             ELSE [done |-> FALSE, x |-> p.val, msg |-> MsgError]

GetIntIter(line, min, max) ==
    LET p == ParseInt(line)
    IN  IF ~p.ok THEN [done |-> FALSE, x |-> 0, msg |-> MsgNotANumber]
        ELSE IF min <= p.val /\ p.val <= max
             THEN [done |-> TRUE, x |-> p.val, msg |-> MsgNone]
             ELSE [done |-> FALSE, x |-> p.val, msg |-> MsgError]

\* the lines typed at an integer prompt
IntChars == {"1", "-", " "}
IntLines == LinesUpTo(IntChars, MaxLineLen)

\* the limits get_int is called with
IntLimits == {-1, 1, 11}

-----------------------------------------------------------------------------
(* get_file_name: one turn of its loop on one input line.  The return      *)
(* statement (line 126) is inside the loop body, after the if chain.       *)

ForbiddenChars == {"<", ">", ":", "\"", "/", "\\", "|", "?", "*"}

MsgEmpty == "File name cannot be empty."
MsgForbidden == "File name cannot contain any of these characters"
MsgHidden == "File name cannot start with a dot."
MsgTooLong == "File name is too long."
MsgNoAlnum == "File name must contain at least one letter or number."

FileNameMessage(nm, allow_hidden) ==
    IF nm = <<>> THEN MsgEmpty
    ELSE IF \E i \in 1..Len(nm) : nm[i] \in ForbiddenChars THEN MsgForbidden
    ELSE IF ~allow_hidden /\ Head(nm) = "." THEN MsgHidden
    ELSE IF Len(nm) > NameMaxLen THEN MsgTooLong
    ELSE IF ~\E i \in 1..Len(nm) : IsAlnum(nm[i]) THEN MsgNoAlnum
    ELSE MsgNone

GetFileNameIterRetrying(line, allow_hidden) ==
    LET nm == Strip(line)
        msg == FileNameMessage(nm, allow_hidden)
    IN  [name |-> nm, msg |-> msg, done |-> msg = MsgNone, returns |-> msg = MsgNone]

GetFileNameIter(line, allow_hidden) ==
    LET nm == Strip(line)
        msg == FileNameMessage(nm, allow_hidden)
    IN  [name |-> nm, msg |-> msg, done |-> msg = MsgNone, returns |-> TRUE]

\* the lines typed at a file-name prompt
NameChars == {"a", ".", "/", " ", "-"}
LongNames ==
    { Repeat("a", NameMaxLen),
      Repeat("a", NameMaxLen + 1),
      Repeat("-", NameMaxLen + 1),
      <<".">> \o Repeat("a", NameMaxLen),
      <<" ">> \o Repeat("a", NameMaxLen) \o <<" ">> }
NameLines == LinesUpTo(NameChars, MaxNameLen) \cup LongNames

-----------------------------------------------------------------------------
(* OutputFile: its fields at construction, and one resumption of           *)
(* a generator made by pages().  A generator is "fresh" before its first   *)
(* next(), "suspended" at the yield, "finished" after the loop ended.      *)

Interval(s, e) == [i \in 1..(e - s + 1) |-> s + i - 1]

\* the stream of an OutputFile: what it has flushed to the file (pos, from
\* offset 0) and what write() left in its buffer
NewStream == [pos |-> 0, buf |-> <<>>, closed |-> FALSE]

NewOutputFile(nm, page_interval) ==
    [name |-> nm, page_interval |-> page_interval, current_page |-> page_interval[1],
     stream |-> NewStream]

PagesResumeRestarting(o, g) ==
    LET cur == IF g = "suspended" THEN o.current_page + 1 ELSE o.page_interval[1]
    IN  IF cur <= o.page_interval[2]
        THEN [o |-> [o EXCEPT !.current_page = cur], yielded |-> <<cur>>, gen |-> "suspended"]
        ELSE [o |-> [o EXCEPT !.current_page = cur], yielded |-> <<>>, gen |-> "finished"]

PagesResume(o, g) ==
    LET cur == IF g = "suspended" THEN o.current_page + 1 ELSE o.current_page
    IN  IF cur <= o.page_interval[2]
        THEN [o |-> [o EXCEPT !.current_page = cur], yielded |-> <<cur>>, gen |-> "suspended"]
        ELSE [o |-> [o EXCEPT !.current_page = cur], yielded |-> <<>>, gen |-> "finished"]

\* next() up to n times on a generator of o in state g
RECURSIVE TakePages(_, _, _)
TakePages(o, g, n) ==
    IF n = 0 \/ g = "finished" THEN [o |-> o, pages |-> <<>>, gen |-> g]
    ELSE LET r == PagesResume(o, g)
             rest == TakePages(r.o, r.gen, n - 1)
         IN  [o |-> rest.o, pages |-> r.yielded \o rest.pages, gen |-> rest.gen]

-----------------------------------------------------------------------------
(* The variables of the parts a specification leaves alone. *)

SessIdle ==
    /\ pc = "Idle" /\ disk = <<>> /\ origDisk = <<>> /\ files = <<>>
    /\ selected_file = <<>> /\ inputOpen = FALSE /\ page_count = 0
    /\ target_count = 0 /\ name = <<>> /\ start = 0 /\ output_files = <<>>
    /\ retries = 0 /\ gen = 0 /\ out = <<>> /\ generated = <<>> /\ copied = <<>>
    /\ escaped = "none" /\ failedAt = 0 /\ engineErr = "none" /\ earlyExit = "none"

GiIdle ==
    /\ gi_min = 0 /\ gi_max = 0 /\ gi_read = <<>> /\ gi_msgs = <<>>
    /\ gi_done = FALSE /\ gi_x = 0

FnIdle ==
    /\ fn_allow_hidden = FALSE /\ fn_input = <<>> /\ fn_reads = 0 /\ fn_msgs = <<>>
    /\ fn_returned = FALSE /\ fn_name = <<>> /\ fn_done = FALSE

PgIdle ==
    /\ pg_o = NewOutputFile(<<>>, <<1, 1>>) /\ pg_gen = "none" /\ pg_calls = <<>>

-----------------------------------------------------------------------------
(* One call of get_int(prompt, error_msg, min, max) on the lines typed.    *)

GetIntInit ==
    /\ SessIdle /\ FnIdle /\ PgIdle
    /\ gi_min \in IntLimits
    /\ gi_max \in {m \in IntLimits : gi_min <= m}
    /\ gi_read = <<>> /\ gi_msgs = <<>> /\ gi_done = FALSE /\ gi_x = 0

\* lines 71-79: input(prompt), int(), the range test, the messages
GetIntRead ==
    /\ ~gi_done
    /\ Len(gi_read) < MaxLines
    /\ \E line \in IntLines :
        LET r == GetIntIter(line, gi_min, gi_max)
        IN  /\ gi_read' = Append(gi_read, line)
            /\ gi_msgs' = IF r.msg = MsgNone THEN gi_msgs ELSE Append(gi_msgs, r.msg)
            /\ gi_done' = r.done
            /\ gi_x' = IF ParseInt(line).ok THEN r.x ELSE gi_x
    /\ UNCHANGED <<gi_min, gi_max, sessVars, fnVars, pgVars>>

GetIntNext == GetIntRead

SpecGetInt == GetIntInit /\ [][GetIntNext]_vars

-----------------------------------------------------------------------------
(* One call of get_file_name(prompt, error_msg, allow_hidden).             *)

GetFileNameInit ==
    /\ SessIdle /\ GiIdle /\ PgIdle
    /\ fn_allow_hidden \in BOOLEAN
    /\ fn_input = <<>> /\ fn_reads = 0 /\ fn_msgs = <<>>
    /\ fn_returned = FALSE /\ fn_name = <<>> /\ fn_done = FALSE

\* lines 99-126: one turn of the loop
GetFileNameRead ==
    /\ ~fn_returned
    /\ fn_reads < MaxNameLines
    /\ \E line \in NameLines :
        LET r == GetFileNameIter(line, fn_allow_hidden)
        IN  /\ fn_input' = line
            /\ fn_reads' = fn_reads + 1
            /\ fn_msgs' = IF r.msg = MsgNone THEN fn_msgs ELSE Append(fn_msgs, r.msg)
            /\ fn_name' = r.name
            /\ fn_done' = r.done
            /\ fn_returned' = r.returns
    /\ UNCHANGED <<fn_allow_hidden, sessVars, giVars, pgVars>>

GetFileNameNext == GetFileNameRead

SpecGetFileName == GetFileNameInit /\ [][GetFileNameNext]_vars

-----------------------------------------------------------------------------
(* One OutputFile and the generators pages() makes from it, one alive at a *)
(* time: a new call drops the generator before it.                         *)

PagesInit ==
    /\ SessIdle /\ GiIdle /\ FnIdle
    /\ \E s \in 1..MaxPageNo : \E e \in s..MaxPageNo :
        pg_o = NewOutputFile(<<"c">> \o DotPdf, <<s, e>>)
    /\ pg_gen = "none"
    /\ pg_calls = <<>>

\* line 14: calling pages() makes a generator and runs none of its body
PagesCall ==
    /\ Len(pg_calls) < MaxCalls
    /\ pg_gen' = "fresh"
    /\ pg_calls' = Append(pg_calls, [yielded |-> <<>>, finished |-> FALSE])
    /\ UNCHANGED <<pg_o, sessVars, giVars, fnVars>>

\* lines 18-20: next() on the generator
PagesNextPage ==
    /\ pg_gen \in {"fresh", "suspended"}
    /\ LET r == PagesResume(pg_o, pg_gen)
           n == Len(pg_calls)
       IN  /\ pg_o' = r.o
           /\ pg_gen' = r.gen
           /\ pg_calls' = [pg_calls EXCEPT ![n] =
                  [yielded |-> @.yielded \o r.yielded, finished |-> r.gen = "finished"]]
    /\ UNCHANGED <<sessVars, giVars, fnVars>>

PagesNext == PagesCall \/ PagesNextPage

SpecPages == PagesInit /\ [][PagesNext]_vars

-----------------------------------------------------------------------------
(* The file system and the PDF engine, as the session sees them.           *)

APdf == <<"a">> \o DotPdf
BPdfUpper == <<"b", ".", "P", "D", "F">>
NotesTxt == <<"n", ".", "t", "x", "t">>

\* what the directory may hold when the session starts
DirListings == { {}, {NotesTxt}, {APdf, NotesTxt, BPdfUpper} }

\* the orders the members of a set may come in (os.listdir, finalization)
Orders(S) ==
    LET n == Cardinality(S)
    IN  {q \in [1..n -> S] : \A i, j \in 1..n : q[i] = q[j] => i = j}

\* what a read of an overwritten source may give in place of a page, and
\* what fills a hole of a file
GarbagePage == 0

\* a write of data at an offset of a file
WriteAt(content, off, data) ==
    IF data = <<>> THEN content
    ELSE LET n == IF Len(content) > off + Len(data) THEN Len(content) ELSE off + Len(data)
         IN  [i \in 1..n |->
                IF i > off /\ i <= off + Len(data) THEN data[i - off]
                ELSE IF i <= Len(content) THEN content[i]
                ELSE GarbagePage]

\* the lines typed at the integer prompts of a session
SessIntLines == { <<"1">>, <<" ", "2", " ">>, <<"3">>, <<"0">>, <<"x">> }

\* the lines typed at the file-name prompt of a session
SessNameLines == { <<" ", "a">>, <<".", "c">>, <<"/">> }

\* the exceptions generation may end with
ExcKinds == {"IOError", "PdfReadError"}

MsgNoDirectory == "Directory does not exist."
MsgNoPdf == "No PDF files found in the directory."
MsgFileNotFound == "File not found"
MsgReadError == "Error reading file"
MsgUnexpected == "An unexpected error occurred"

-----------------------------------------------------------------------------
(* The steps of main() as operators. *)

\* list_pdf_files: found is FALSE for the None result
ListPdfFiles(exists, entries) ==
    IF ~exists THEN [found |-> FALSE, files |-> <<>>]
    ELSE [found |-> TRUE,
          files |-> SelectSeq(entries, LAMBDA f : EndsWith(Lower(f), DotPdf))]

\* main, lines 185-195, without the return of line 192
MainAfterListNoReturn(l) ==
    IF ~l.found
    THEN [pc |-> "End", out |-> <<MsgNoDirectory>>, earlyExit |-> "DirectoryNotFound"]
    ELSE IF Len(l.files) = 0
    THEN [pc |-> "SelectFile", out |-> <<MsgNoPdf>>, earlyExit |-> "NoPdfFilesFound"]
    ELSE [pc |-> "SelectFile", out |-> <<>>, earlyExit |-> "none"]

\* main, lines 185-195: what follows the listing
MainAfterList(l) ==
    IF ~l.found
    THEN [pc |-> "End", out |-> <<MsgNoDirectory>>, earlyExit |-> "DirectoryNotFound"]
    ELSE IF Len(l.files) = 0
    THEN [pc |-> "End", out |-> <<MsgNoPdf>>, earlyExit |-> "NoPdfFilesFound"]
    ELSE [pc |-> "SelectFile", out |-> <<>>, earlyExit |-> "none"]

\* main, lines 198-205: what follows a failed open of the source
MainOpenFailed(res) ==
    IF res = "FileNotFoundError"
    THEN [out |-> <<MsgFileNotFound>>, earlyExit |-> "SourceFileNotFound"]
    ELSE [out |-> <<MsgReadError>>, earlyExit |-> "SourceReadError"]

\* main, lines 218-223: the line printed for an exception of generation
ExceptMessage(kind) ==
    IF kind = "FileNotFoundError" THEN MsgFileNotFound
    ELSE IF kind = "IOError" THEN MsgReadError
    ELSE MsgUnexpected

\* open(..., 'wb') of OutputFile.__init__ cannot succeed: the name holds a
\* path separator and the directory is flat
CannotCreate(fname) == \E i \in 1..Len(fname) : fname[i] = "/"

\* OutputFile.__del__, lines 25-26, of one output: close() writes what the
\* buffer holds
DelOutput(d, o) == [d EXCEPT ![o.name] = WriteAt(@, o.stream.pos, o.stream.buf)]

ClosedOutput(o) ==
    [o EXCEPT !.stream = [pos |-> o.stream.pos + Len(o.stream.buf), buf |-> <<>>,
                          closed |-> TRUE]]

\* __del__ of the outputs in an order
RECURSIVE DelAll(_, _, _)
DelAll(d, ofs, order) ==
    IF order = <<>> THEN d
    ELSE DelAll(DelOutput(d, ofs[Head(order)]), ofs, Tail(order))

\* main() is left, by return or by an exception: every OutputFile is
\* finalized
CloseAll(ofs) == [i \in 1..Len(ofs) |-> ClosedOutput(ofs[i])]

-----------------------------------------------------------------------------
(* The session: main() from the intro prompt on.  An action is one line    *)
(* read from standard input with all main() does up to the next read, one  *)
(* or one output of generate_output_files; the step that leaves main()    *)
(* finalizes the OutputFiles, in an order the interpreter chooses.         *)

Init ==
    /\ GiIdle /\ FnIdle /\ PgIdle
    /\ pc = "Start"
    /\ \E listing \in DirListings : \E n \in 0..MaxPages :
        disk = [f \in listing |-> Interval(1, n)]
    /\ origDisk = disk
    /\ files = <<>> /\ selected_file = <<>> /\ inputOpen = FALSE /\ page_count = 0
    /\ target_count = 0 /\ name = <<>> /\ start = 0 /\ output_files = <<>>
    /\ retries = 0 /\ gen = 0 /\ out = <<>> /\ generated = <<>> /\ copied = <<>>
    /\ escaped = "none" /\ failedAt = 0 /\ engineErr = "none" /\ earlyExit = "none"

\* a get_int call rejected the line: its message, and the prompt again
Rejected ==
    /\ retries < MaxRetries
    /\ retries' = retries + 1

\* main, lines 179-195: intro(), list_pdf_files(), the two early exits
Intro ==
    /\ pc = "Start"
    /\ \E kind \in {"missing", "file", "directory"} :
        IF kind = "file"
        THEN \* os.path.exists holds and os.listdir raises
             /\ pc' = "Crashed"
             /\ escaped' = "NotADirectoryError"
             /\ UNCHANGED <<files, out, earlyExit>>
        ELSE \E entries \in Orders(DOMAIN disk) :
                LET l == ListPdfFiles(kind = "directory", entries)
                    r == MainAfterList(l)
                IN  /\ files' = l.files
                    /\ pc' = r.pc
                    /\ out' = out \o r.out
                    /\ earlyExit' = r.earlyExit
                    /\ UNCHANGED escaped
    /\ UNCHANGED <<disk, origDisk, selected_file, inputOpen, page_count, target_count,
                   name, start, output_files, retries, gen, generated, copied,
                   failedAt, engineErr, giVars, fnVars, pgVars>>

\* select_file's get_int, then main, lines 197-212 up to the next prompt
SelectFile ==
    /\ pc = "SelectFile"
    /\ \E line \in SessIntLines :
        LET r == GetIntIter(line, 1, Len(files))
        IN  IF ~r.done
            THEN /\ Rejected
                 /\ UNCHANGED <<pc, selected_file, inputOpen, page_count, out,
                                escaped, engineErr, earlyExit>>
            ELSE /\ selected_file' = files[r.x]
                 /\ retries' = 0
                 /\ \E res \in {"ok", "FileNotFoundError", "IOError"} :
                     IF res # "ok"
                     THEN /\ pc' = "End"
                          /\ out' = out \o MainOpenFailed(res).out
                          /\ earlyExit' = MainOpenFailed(res).earlyExit
                          /\ UNCHANGED <<inputOpen, page_count, escaped, engineErr>>
                     ELSE /\ inputOpen' = TRUE
                          /\ \E parseable \in BOOLEAN :
                              IF parseable
                              THEN /\ page_count' = Len(disk[files[r.x]])
                                   /\ pc' = "TargetCount"
                                   /\ UNCHANGED <<escaped, engineErr>>
                              ELSE \* PdfFileReader(input) raises, outside any try
                                   /\ pc' = "Crashed"
                                   /\ escaped' = "PdfReadError"
                                   /\ engineErr' = "open"
                                   /\ UNCHANGED page_count
                          /\ UNCHANGED <<out, earlyExit>>
    /\ UNCHANGED <<disk, origDisk, files, target_count, name, start, output_files,
                   gen, generated, copied, failedAt, giVars, fnVars, pgVars>>

\* get_output_files, lines 146-153: the target count
TargetCount ==
    /\ pc = "TargetCount"
    /\ \E line \in SessIntLines :
        LET r == GetIntIter(line, 1, TargetCountMax)
        IN  IF ~r.done
            THEN /\ Rejected
                 /\ UNCHANGED <<pc, target_count>>
            ELSE /\ r.x <= MaxTargets
                 /\ target_count' = r.x
                 /\ retries' = 0
                 /\ pc' = "FileName"
    /\ UNCHANGED <<disk, origDisk, files, selected_file, inputOpen, page_count, name,
                   start, output_files, gen, out, generated, copied, escaped,
                   failedAt, engineErr, earlyExit, giVars, fnVars, pgVars>>

\* get_output_files, line 153: get_file_name
FileName ==
    /\ pc = "FileName"
    /\ \E line \in SessNameLines :
        LET r == GetFileNameIter(line, FALSE)
        IN  /\ name' = r.name
            /\ pc' = IF r.returns THEN "FirstPage" ELSE "FileName"
    /\ UNCHANGED <<disk, origDisk, files, selected_file, inputOpen, page_count,
                   target_count, start, output_files, retries, gen, out, generated,
                   copied, escaped, failedAt, engineErr, earlyExit, giVars, fnVars,
                   pgVars>>

\* get_output_files, line 154: the first page
FirstPage ==
    /\ pc = "FirstPage"
    /\ \E line \in SessIntLines :
        LET r == GetIntIter(line, 1, page_count)
        IN  IF ~r.done
            THEN /\ Rejected
                 /\ UNCHANGED <<pc, start>>
            ELSE /\ start' = r.x
                 /\ retries' = 0
                 /\ pc' = "LastPage"
    /\ UNCHANGED <<disk, origDisk, files, selected_file, inputOpen, page_count,
                   target_count, name, output_files, gen, out, generated, copied,
                   escaped, failedAt, engineErr, earlyExit, giVars, fnVars, pgVars>>

\* get_output_files, lines 155-158: the last page, then OutputFile(...),
\* whose __init__ opens (creates or truncates) the destination
LastPage ==
    /\ pc = "LastPage"
    /\ \E line \in SessIntLines :
        LET r == GetIntIter(line, start, page_count)
            fname == name \o DotPdf
        IN  IF ~r.done
            THEN /\ Rejected
                 /\ UNCHANGED <<pc, disk, output_files, gen, escaped>>
            ELSE /\ retries' = 0
                 /\ \E opened \in BOOLEAN :
                     /\ CannotCreate(fname) => ~opened
                     /\ IF opened
                        THEN LET ofs == Append(output_files,
                                               NewOutputFile(fname, <<start, r.x>>))
                             IN  /\ disk' = (fname :> <<>>) @@ disk
                                 /\ output_files' = ofs
                                 /\ IF Len(ofs) = target_count
                                    THEN pc' = "Generating" /\ gen' = 1
                                    ELSE pc' = "FileName" /\ UNCHANGED gen
                                 /\ UNCHANGED escaped
                        ELSE \* open() raises inside get_output_files
                             /\ escaped' = IF CannotCreate(fname)
                                           THEN "FileNotFoundError" ELSE "PermissionError"
                             /\ pc' = "Crashed"
                             /\ output_files' = CloseAll(output_files)
                             /\ UNCHANGED <<disk, gen>>
    /\ UNCHANGED <<origDisk, files, selected_file, inputOpen, page_count, target_count,
                   name, start, out, generated, copied, failedAt, engineErr, earlyExit,
                   giVars, fnVars, pgVars>>

\* how generation of one output of n pages may go: getPage raises after
\* ncopied pages were added, or write raises after put pages reached the
\* stream, or all is copied and written; a read of an overwritten source
\* may give garbage in place of pages
Outcomes(n, overwritten) ==
    LET G == IF overwritten THEN BOOLEAN ELSE {FALSE}
    IN  {[ncopied |-> j, put |-> 0, kind |-> k, garbage |-> g] :
            j \in 0..(n - 1), k \in ExcKinds, g \in G}
        \cup {[ncopied |-> n, put |-> w, kind |-> k, garbage |-> g] :
            w \in 0..n, k \in ExcKinds, g \in G}
        \cup {[ncopied |-> n, put |-> n, kind |-> "none", garbage |-> g] : g \in G}

\* the outputs whose stream holds unwritten data
Pending(ofs) == {i \in 1..Len(ofs) : ofs[i].stream.buf # <<>>}

\* generate_output_files, lines 164-175, for one output; then, when the
\* loop ended or an exception left it, main, lines 218-226, and its return
Generate ==
    /\ pc = "Generating"
    /\ LET o == output_files[gen]
           n == o.page_interval[2] - o.page_interval[1] + 1
           \* an output opened on the source's name and already flushed to it
           overwritten == disk[selected_file] \notin {origDisk[selected_file], <<>>}
           last == gen = Len(output_files)
       IN  \E c \in Outcomes(n, overwritten) :
            LET t == TakePages(o, "fresh", c.ncopied + 1)
                data == [i \in 1..c.ncopied |->
                            IF c.garbage THEN GarbagePage ELSE t.pages[i]]
                failed == c.kind # "none"
            IN  /\ copied' = Append(copied, data)
                /\ \E flushed \in {0, c.put} :
                    LET d == [disk EXCEPT ![o.name] = WriteAt(@, 0, SubSeq(data, 1, flushed))]
                        ofs == [output_files EXCEPT ![gen] =
                                  [t.o EXCEPT !.stream = [pos |-> flushed,
                                                          buf |-> SubSeq(data, flushed + 1, c.put),
                                                          closed |-> FALSE]]]
                    IN  IF failed \/ last
                        THEN /\ \E order \in Orders(Pending(ofs)) : disk' = DelAll(d, ofs, order)
                             /\ output_files' = CloseAll(ofs)
                             /\ inputOpen' = FALSE
                             /\ pc' = "End"
                        ELSE /\ disk' = d
                             /\ output_files' = ofs
                             /\ UNCHANGED <<inputOpen, pc>>
                /\ IF failed
                   THEN /\ out' = Append(out, ExceptMessage(c.kind))
                        /\ failedAt' = gen
                        /\ engineErr' = IF c.kind = "PdfReadError"
                                        THEN (IF c.ncopied < n THEN "copy" ELSE "write")
                                        ELSE engineErr
                        /\ UNCHANGED <<gen, generated>>
                   ELSE /\ generated' = Append(generated, gen)
                        /\ gen' = gen + 1
                        /\ UNCHANGED <<out, failedAt, engineErr>>
    /\ UNCHANGED <<origDisk, files, selected_file, page_count, target_count, name,
                   start, retries, escaped, earlyExit, giVars, fnVars, pgVars>>

Next == Intro \/ SelectFile \/ TargetCount \/ FileName \/ FirstPage \/ LastPage
        \/ Generate

Spec == Init /\ [][Next]_vars

-----------------------------------------------------------------------------
(* The properties checked. *)

\* int(line) succeeds with a value in [lo, hi]
ValidIntLine(line, lo, hi) ==
    /\ ParseInt(line).ok
    /\ lo <= ParseInt(line).val
    /\ ParseInt(line).val <= hi

\* C2: get_int returns only a value x with min <= x <= max, the value of
\* the first line read that parses as an integer in that range; every line
\* read before it, non-numeric or out of range, caused its message ("Please
\* enter a number." or error_msg) and another prompt, never a return.
C2_GetIntReturnsFirstValid ==
    LET n == Len(gi_read)
    IN  /\ gi_done =>
            /\ n >= 1
            /\ gi_min <= gi_x /\ gi_x <= gi_max
            /\ ValidIntLine(gi_read[n], gi_min, gi_max)
            /\ gi_x = ParseInt(gi_read[n]).val
            /\ \A i \in 1..(n - 1) : ~ValidIntLine(gi_read[i], gi_min, gi_max)
            /\ Len(gi_msgs) = n - 1
        /\ ~gi_done =>
            /\ \A i \in 1..n : ~ValidIntLine(gi_read[i], gi_min, gi_max)
            /\ Len(gi_msgs) = n
        /\ \A i \in 1..Len(gi_msgs) :
            gi_msgs[i] = IF ParseInt(gi_read[i]).ok THEN MsgError ELSE MsgNotANumber

\* C2 witness: a call that returned after a non-numeric and an out-of-range
\* line, or after one of them when it read two lines
C2_Witness ==
    /\ gi_done
    /\ Len(gi_read) >= 2
    /\ gi_msgs[1] \in {MsgNotANumber, MsgError}
    /\ gi_x = 11

\* the rejection rules of get_file_name, in its order, with their messages
NameRules(nm, allow_hidden) ==
    << <<nm = <<>>, MsgEmpty>>,
       <<\E i \in 1..Len(nm) : nm[i] \in ForbiddenChars, MsgForbidden>>,
       <<~allow_hidden /\ nm # <<>> /\ nm[1] = ".", MsgHidden>>,
       <<Len(nm) > NameMaxLen, MsgTooLong>>,
       <<\A i \in 1..Len(nm) : ~IsAlnum(nm[i]), MsgNoAlnum>> >>

NameAccepted(nm, allow_hidden) ==
    \A i \in 1..5 : ~NameRules(nm, allow_hidden)[i][1]

C3_PagesOnceAscending ==
    LET s == pg_o.page_interval[1]
        e == pg_o.page_interval[2]
    IN  /\ Len(pg_calls) >= 1 =>
            /\ \E k \in 0..(e - s + 1) : pg_calls[1].yielded = SubSeq(Interval(s, e), 1, k)
            /\ pg_calls[1].finished =>
                /\ pg_calls[1].yielded = Interval(s, e)
                /\ Len(pg_calls[1].yielded) = e - s + 1
        /\ \A i, j \in 1..Len(pg_calls) :
            i < j /\ pg_calls[i].finished => pg_calls[j].yielded = <<>>

\* C3 witness: an interval of more than one page, consumed once in full,
\* and a second call consumed to its end
C3_Witness ==
    /\ Len(pg_calls) >= 2
    /\ pg_calls[1].finished
    /\ pg_calls[2].finished
    /\ pg_o.page_interval[2] > pg_o.page_interval[1]

\* the name of an output file without its ".pdf"
BaseName(fname) == SubSeq(fname, 1, Len(fname) - Len(DotPdf))

\* C1: once generate_output_files has completed without error and the
\* session has ended, the destination of every plan entry holds exactly the
\* source pages start..end of that entry in ascending order, and the
\* completion callback ran once per entry, in plan order.
C1_EveryDestinationHoldsItsPages ==
    (pc = "End" /\ failedAt = 0 /\ output_files # <<>>) =>
        /\ generated = Interval(1, Len(output_files))
        /\ \A i \in 1..Len(output_files) :
            disk[output_files[i].name] =
                Interval(output_files[i].page_interval[1], output_files[i].page_interval[2])

\* C4: every OutputFile of the plan has 1 <= start <= end <= page_count and
\* a name that, before ".pdf", passes the file-name validator.
C4_PlanEntriesValid ==
    \A i \in 1..Len(output_files) :
        LET o == output_files[i]
        IN  /\ 1 <= o.page_interval[1]
            /\ o.page_interval[1] <= o.page_interval[2]
            /\ o.page_interval[2] <= page_count
            /\ NameAccepted(BaseName(o.name), FALSE)

\* the diagnostic of each early exit
EarlyExitMessage ==
    [DirectoryNotFound |-> MsgNoDirectory, NoPdfFilesFound |-> MsgNoPdf,
     SourceFileNotFound |-> MsgFileNotFound, SourceReadError |-> MsgReadError]

\* C5: on each early-exit condition (the directory does not exist, it has
\* no PDF file, the source cannot be opened) the session has printed one
\* diagnostic and is at End: it waits at no prompt, no file was created or
\* truncated, and generation was never entered.
C5_EarlyExitEndsSession ==
    earlyExit # "none" =>
        /\ pc = "End"
        /\ out = <<EarlyExitMessage[earlyExit]>>
        /\ disk = origDisk
        /\ output_files = <<>>
        /\ gen = 0 /\ generated = <<>> /\ copied = <<>>
        /\ escaped = "none"

\* C5 witness: the source could not be opened after it was selected
C5_Witness ==
    /\ earlyExit = "SourceReadError"
    /\ selected_file = BPdfUpper
    /\ pc = "End"

\* C6: if generation failed at the k-th output, the callback ran for
\* outputs 1..k-1 only, nothing was copied or written for an output after
\* k, one diagnostic was printed, every output written before k still holds
\* what was written to it, and the session ends with the source closed.
C6_FailureAbortsAndKeepsEarlierOutputs ==
    (pc = "End" /\ failedAt > 0) =>
        /\ generated = Interval(1, failedAt - 1)
        /\ Len(copied) = failedAt
        /\ gen = failedAt
        /\ Len(out) = 1
        /\ ~inputOpen
        /\ \A j \in 1..(failedAt - 1) : disk[output_files[j].name] = copied[j]

\* C7: every failure of the PDF engine after the source was opened is
\* reported as one "unexpected error" line and the session ends normally:
\* no exception leaves main.
C7_EngineFailuresHandled ==
    engineErr # "none" =>
        /\ escaped = "none"
        /\ pc = "End"
        /\ out = <<MsgUnexpected>>

\* C9: the selected source file holds at End what it held at Start, and
\* every page read during generation is a page of the original source.
C9_SourceUnchanged ==
    /\ (pc = "End" /\ selected_file \in DOMAIN origDisk) =>
            disk[selected_file] = origDisk[selected_file]
    /\ \A i \in 1..Len(copied) : \A j \in 1..Len(copied[i]) :
            copied[i][j] \in 1..Len(origDisk[selected_file])

\* C10: once the source is opened, whatever page count the engine reported,
\* the prompt the session waits at can be satisfied by some line, so plan
\* collection can go on to its end.
C10_PromptsSatisfiable ==
    /\ pc = "TargetCount" => \E line \in SessIntLines : GetIntIter(line, 1, TargetCountMax).done
    /\ pc = "FileName" => \E line \in SessNameLines : GetFileNameIter(line, FALSE).returns
    /\ pc = "FirstPage" => \E line \in SessIntLines : GetIntIter(line, 1, page_count).done
    /\ pc = "LastPage" => \E line \in SessIntLines : GetIntIter(line, start, page_count).done

====
